---- MODULE Spec2Model ----
(***************************************************************************)
(* Model of cli/games/space_invaders/game.py: the SpaceInvadersGame        *)
(* adapter (_make_env, train, evaluate, validate_model, stake).            *)
(*                                                                         *)
(* External collaborators (gymnasium, stable_baselines3, the wallet, the   *)
(* file system) are modelled by what the adapter observes of them: the     *)
(* observation shape of an environment, whether a call raises, the content *)
(* of a model file.                                                        *)
(***************************************************************************)
EXTENDS Integers, Sequences, FiniteSets, TLC

(***************************************************************************)
(* Bounds of the model                                                     *)
(***************************************************************************)
MaxEpisodes == 2
MaxConfigFrameStack == 4

(***************************************************************************)
(* Program constants                                                       *)
(***************************************************************************)
MinScore == 0
MaxScore == 1000
SuccessThreshold == 100
NumEnvs == 4
EvalFrameStack == 4
ObsFrameStack == 4
NegInf == -1000000

name == "space_invaders"
env_id == "ALE/SpaceInvaders-v5"
score_range == <<MinScore, MaxScore>>
FinalModelPath == "models/space_invaders_final.zip"
OtherModelPath == "models/other.zip"

(***************************************************************************)
(* Input domains                                                           *)
(***************************************************************************)
ModelPaths == {FinalModelPath, OtherModelPath}
NoPath == "None"
ConfigPaths == {NoPath, "custom.yaml"}
Amounts == {10}
TargetScores == {MinScore - 1, MinScore, MaxScore, MaxScore + 1}
Wallets == [account : {"alice.near"}, logged_in : BOOLEAN]
\* One episode as the while loop of evaluate leaves it: <<episode_score,
\* episode_length>>.  ClipRewardEnv bounds every step reward to -1..1, so
\* |episode_score| <= episode_length, and the loop body runs at least once.
EpisodeLengths == {1, SuccessThreshold + 1}
EpisodeScores == {0, SuccessThreshold, SuccessThreshold + 1}
Abs(x) == IF x < 0 THEN -x ELSE x
EpisodeOutcomes ==
    {o \in EpisodeScores \X EpisodeLengths :
        /\ Abs(o[1]) <= o[2]
        /\ \A l \in EpisodeLengths : Abs(o[1]) <= l => o[2] <= l}

(***************************************************************************)
(* Outcomes of a call                                                      *)
(***************************************************************************)
NoOutcome == [kind |-> "none"]
Return(v) == [kind |-> "return", value |-> v]
Raise(e) == [kind |-> "raise", error |-> e]
Error(t, m) == [type |-> t, msg |-> m]

\* Errors raised by the libraries
EnvError == Error("Exception", <<"gym.make failed">>)
LearnError == Error("Exception", <<"learn failed">>)
StepError == Error("Exception", <<"env.step failed">>)
FileNotFound == Error("FileNotFoundError", <<"no such file">>)
BadZipFile == Error("BadZipFile", <<"File is not a zip file">>)
SpaceMismatch == Error("ValueError", <<"Observation spaces do not match">>)
ZeroDivision == Error("ZeroDivisionError", <<"division by zero">>)
NameError(n) == Error("NameError", <<"name is not defined", n>>)

(***************************************************************************)
(* Module globals (lines 2..25): the names the import block binds.         *)
(***************************************************************************)
ModuleGlobals(near) ==
    {"gym", "Path", "Optional", "Tuple", "Any", "DQN", "DummyVecEnv",
     "VecFrameStack", "NoopResetEnv", "MaxAndSkipEnv", "EpisodicLifeEnv",
     "FireResetEnv", "ClipRewardEnv", "logger", "GameInterface",
     "GameConfig", "EvaluationResult", "ProgressCallback",
     "NEAR_AVAILABLE", "NEARWallet", "SpaceInvadersGame", "register"}
    \cup (IF near THEN {"StakeRecord"} ELSE {})

(***************************************************************************)
(* Environment factory                                                     *)
(***************************************************************************)
NoEnv == [kind |-> "none"]
BaseObsShape == <<210, 160, 3>>

\* A wrapper that leaves the observation space as it is.
Wrap(e, w) == [e EXCEPT !.wrappers = Append(@, w)]

\* gym.wrappers.ResizeObservation(env, (h, w))
ResizeObservation(e, h, w) ==
    [e EXCEPT !.wrappers = Append(@, "ResizeObservation"),
              !.obs_shape = <<h, w>> \o SubSeq(@, 3, Len(@))]

\* gym.wrappers.GrayscaleObservation(env, keep_dim=False)
GrayscaleObservation(e) ==
    [e EXCEPT !.wrappers = Append(@, "GrayscaleObservation"),
              !.obs_shape = SubSeq(@, 1, 2)]

\* gym.wrappers.FrameStackObservation(env, n)
FrameStackObservation(e, n) ==
    [e EXCEPT !.wrappers = Append(@, "FrameStackObservation"),
              !.obs_shape = <<n>> \o @]

\* gym.make(self.env_id, render_mode=render_mode, frameskip=4)
GymMake(render_mode) ==
    [kind |-> "gym", env_id |-> env_id, render_mode |-> render_mode,
     frameskip |-> 4, wrappers |-> <<>>, obs_shape |-> BaseObsShape]

\* Lines 90..99: the Atari wrappers, then the observation preprocessing.
StandardWrappers(e) ==
    FrameStackObservation(
      GrayscaleObservation(
        ResizeObservation(
          Wrap(Wrap(Wrap(Wrap(Wrap(e, "NoopResetEnv"), "MaxAndSkipEnv"),
                         "EpisodicLifeEnv"), "FireResetEnv"), "ClipRewardEnv"),
          84, 84)),
      ObsFrameStack)

\* Line 102: the condition under which RecordVideo is attached.
AttachRecording_IgnoreRender(render, record) == record
AttachRecording(render, record) == record /\ ~render

_make_env(render, record) ==
    IF AttachRecording(render, record)
    THEN Wrap(StandardWrappers(GymMake(IF render THEN "human" ELSE "rgb_array")),
              "RecordVideo")
    ELSE StandardWrappers(GymMake(IF render THEN "human" ELSE "rgb_array"))

HasWrapper(e, w) == \E i \in 1..Len(e.wrappers) : e.wrappers[i] = w

DummyVecEnv(envs) ==
    [kind |-> "vec", envs |-> envs, obs_shape |-> envs[1].obs_shape]

\* VecFrameStack stacks an image observation along its channel axis, which
\* stable_baselines3 takes to be the first axis when it is the smallest.
VecFrameStack(venv, n) ==
    LET s == venv.obs_shape
        first == \A i \in 1..Len(s) : s[1] <= s[i]
        axis == IF first THEN 1 ELSE Len(s)
    IN  [venv EXCEPT !.obs_shape = [s EXCEPT ![axis] = @ * n]]

(***************************************************************************)
(* Configuration                                                           *)
(***************************************************************************)
get_default_config ==
    [total_timesteps |-> 1000000, learning_rate |-> <<25, 100000>>,
     buffer_size |-> 250000, learning_starts |-> 50000, batch_size |-> 256,
     exploration_fraction |-> <<2, 10>>, target_update_interval |-> 2000,
     frame_stack |-> 4]

\* The configurations load_config may return: the defaults when no path is
\* given, any frame-stack depth when a file is read.
load_config(config_path) ==
    IF config_path = NoPath
    THEN {get_default_config}
    ELSE {[get_default_config EXCEPT !.frame_stack = k] : k \in 1..MaxConfigFrameStack}

(***************************************************************************)
(* Model files                                                             *)
(***************************************************************************)
Absent == [kind |-> "absent"]
Corrupt == [kind |-> "corrupt"]
ModelFile(shape) == [kind |-> "model", obs_shape |-> shape]

\* Files found on disk before the adapter runs.
ExternalFiles == {Absent, Corrupt, ModelFile(<<4, 84, 84>>)}

\* DQN(policy, env, ...): the model remembers the observation space.
DQN(e) == [obs_shape |-> e.obs_shape]

\* model.save(path)
Save(fs, path, model) == [fs EXCEPT ![path] = ModelFile(model.obs_shape)]

\* DQN.load(path, env=env)
DQNLoad(fs, path, e) ==
    IF fs[path].kind = "absent" THEN Raise(FileNotFound)
    ELSE IF fs[path].kind = "corrupt" THEN Raise(BadZipFile)
    ELSE IF e.obs_shape # fs[path].obs_shape THEN Raise(SpaceMismatch)
    ELSE Return(DQN(e))

(***************************************************************************)
(* validate_model (lines 211..219)                                         *)
(***************************************************************************)
\* The body of the try block: the outcome of constructing the environment
\* and loading the model against it.
validate_try(fs, model_path, env_ok) ==
    IF ~env_ok
    THEN [outcome |-> Raise(EnvError), env |-> NoEnv]
    ELSE LET e == DummyVecEnv(<<_make_env(FALSE, FALSE)>>)
             r == DQNLoad(fs, model_path, e)
         IN  [outcome |-> IF r.kind = "raise" THEN r ELSE Return(TRUE), env |-> e]

validate_model_NoCatch(fs, model_path, env_ok) ==
    LET t == validate_try(fs, model_path, env_ok)
    IN  [outcome |-> t.outcome, log |-> <<>>, env |-> t.env]

validate_model(fs, model_path, env_ok) ==
    LET t == validate_try(fs, model_path, env_ok)
    IN  IF t.outcome.kind = "raise"
        THEN [outcome |-> Return(FALSE),
              log |-> << <<"error", "Invalid model file", t.outcome.error>> >>,
              env |-> t.env]
        ELSE [outcome |-> t.outcome, log |-> <<>>, env |-> t.env]

(***************************************************************************)
(* stake (lines 221..245)                                                  *)
(***************************************************************************)
FeatureUnavailableError == Error("RuntimeError", <<"NEAR integration not available">>)
NotLoggedInError_SameAsModel == Error("ValueError", <<"Invalid model file">>)
NotLoggedInError == Error("ValueError", <<"Must be logged in to stake">>)
InvalidModelError == Error("ValueError", <<"Invalid model file">>)
OutOfRangeError(lo, hi) ==
    Error("ValueError", <<"Target score must be between", lo, "and", hi>>)

InRange_LowerOnly(lo, hi, t) == lo <= t
InRange(lo, hi, t) == lo <= t /\ t <= hi

\* await stake_on_game(...): the name is looked up in the module globals
\* when the call is reached.
call_stake_on_game(near, args) ==
    IF "stake_on_game" \in ModuleGlobals(near)
    THEN [outcome |-> Return("None"), stake_calls |-> <<args>>,
          trace |-> <<"stake_on_game">>]
    ELSE [outcome |-> Raise(NameError("stake_on_game")), stake_calls |-> <<>>,
          trace |-> <<>>]

StakeResult(o, tr, lg, sc, e) ==
    [outcome |-> o, trace |-> tr, log |-> lg, stake_calls |-> sc, env |-> e]

stake_ValidateFirst(near, wallet, model_path, amount, target_score, fs, env_ok) ==
    IF ~near
    THEN StakeResult(Raise(FeatureUnavailableError), <<>>, <<>>, <<>>, NoEnv)
    ELSE
    LET v == validate_model(fs, model_path, env_ok)
        t2 == <<"validate_model">>
    IN  IF v.outcome.kind = "raise"
        THEN StakeResult(v.outcome, t2, v.log, <<>>, v.env)
        ELSE IF ~v.outcome.value
        THEN StakeResult(Raise(InvalidModelError), t2, v.log, <<>>, v.env)
        ELSE IF ~wallet.logged_in
        THEN StakeResult(Raise(NotLoggedInError), Append(t2, "wallet.is_logged_in"),
                         v.log, <<>>, v.env)
        ELSE
        LET t1 == Append(t2, "wallet.is_logged_in")
            min_score == score_range[1]
            max_score == score_range[2]
        IN  IF ~InRange(min_score, max_score, target_score)
            THEN StakeResult(Raise(OutOfRangeError(min_score, max_score)),
                             t1, v.log, <<>>, v.env)
            ELSE
            LET c == call_stake_on_game(near,
                        [wallet |-> wallet, game_name |-> name,
                         model_path |-> model_path, amount |-> amount,
                         target_score |-> target_score,
                         score_range |-> score_range])
            IN  StakeResult(c.outcome, t1 \o c.trace,
                            v.log, c.stake_calls, v.env)

\* trace lists, in order, the collaborators the call reached: the wallet's
\* login check, validate_model, stake_on_game.
stake(near, wallet, model_path, amount, target_score, fs, env_ok) ==
    IF ~near
    THEN StakeResult(Raise(FeatureUnavailableError), <<>>, <<>>, <<>>, NoEnv)
    ELSE IF ~wallet.logged_in
    THEN StakeResult(Raise(NotLoggedInError), <<"wallet.is_logged_in">>,
                     <<>>, <<>>, NoEnv)
    ELSE
    LET v == validate_model(fs, model_path, env_ok)
        t2 == <<"wallet.is_logged_in", "validate_model">>
    IN  IF v.outcome.kind = "raise"
        THEN StakeResult(v.outcome, t2, v.log, <<>>, v.env)
        ELSE IF ~v.outcome.value
        THEN StakeResult(Raise(InvalidModelError), t2, v.log, <<>>, v.env)
        ELSE
        LET min_score == score_range[1]
            max_score == score_range[2]
        IN  IF ~InRange(min_score, max_score, target_score)
            THEN StakeResult(Raise(OutOfRangeError(min_score, max_score)),
                             t2, v.log, <<>>, v.env)
            ELSE
            LET c == call_stake_on_game(near,
                        [wallet |-> wallet, game_name |-> name,
                         model_path |-> model_path, amount |-> amount,
                         target_score |-> target_score,
                         score_range |-> score_range])
            IN  StakeResult(c.outcome, t2 \o c.trace,
                            v.log, c.stake_calls, v.env)

(***************************************************************************)
(* train (lines 111..170)                                                  *)
(***************************************************************************)
TrainResult(o, fs, lg, tr, e) ==
    [outcome |-> o, files |-> fs, log |-> lg, trace |-> tr, env |-> e]

TrainStartLog ==
    << <<"info", "Training Space Invaders agent">>,
       <<"info", "This training should take about 30-45 minutes.">>,
       <<"info", "Monitor progress in TensorBoard">> >>

train_SaveBeforeLearn(render, config, env_ok, learn_ok, fs) ==
    IF ~env_ok
    THEN TrainResult(Raise(EnvError), fs, <<>>, <<>>, NoEnv)
    ELSE
    LET venv == DummyVecEnv([i \in 1..NumEnvs |-> _make_env(render, FALSE)])
        e == VecFrameStack(venv, config.frame_stack)
        model == DQN(e)
        model_path == FinalModelPath
        saved == Save(fs, model_path, model)
    IN  IF ~learn_ok
        THEN TrainResult(Raise(LearnError), saved,
                         Append(TrainStartLog, <<"error", "Training failed", LearnError>>),
                         <<"mkdir", "model.save", "model.learn">>, e)
        ELSE TrainResult(Return(model_path), saved,
                         Append(TrainStartLog, <<"info", "Model saved to", model_path>>),
                         <<"mkdir", "model.save", "model.learn">>, e)

train(render, config, env_ok, learn_ok, fs) ==
    IF ~env_ok
    THEN TrainResult(Raise(EnvError), fs, <<>>, <<>>, NoEnv)
    ELSE
    LET venv == DummyVecEnv([i \in 1..NumEnvs |-> _make_env(render, FALSE)])
        e == VecFrameStack(venv, config.frame_stack)
        model == DQN(e)
        model_path == FinalModelPath
    IN  IF ~learn_ok
        THEN TrainResult(Raise(LearnError), fs,
                         Append(TrainStartLog, <<"error", "Training failed", LearnError>>),
                         <<"model.learn">>, e)
        ELSE TrainResult(Return(model_path), Save(fs, model_path, model),
                         Append(TrainStartLog, <<"info", "Model saved to", model_path>>),
                         <<"model.learn", "mkdir", "model.save">>, e)

(***************************************************************************)
(* evaluate (lines 172..209)                                               *)
(***************************************************************************)
IsSuccess_AtLeast(episode_score) == episode_score >= SuccessThreshold
IsSuccess(episode_score) == episode_score > SuccessThreshold

Max(a, b) == IF a >= b THEN a ELSE b

RECURSIVE Sum(_)
Sum(s) == IF s = <<>> THEN 0 ELSE s[1] + Sum(Tail(s))

\* a / b in Python: the pair <<a, b>> stands for the quotient.
Div(a, b) == <<a, b>>

EvaluationResult(ts, eps, succ, best, lens) ==
    [score |-> Div(ts, eps), episodes |-> eps, success_rate |-> Div(succ, eps),
     best_episode_score |-> best, avg_episode_length |-> Div(Sum(lens), Len(lens))]

\* The environment evaluate builds: self._make_env(record) binds the flag
\* to _make_env's first parameter.
evaluate_env(record) ==
    VecFrameStack(DummyVecEnv(<<_make_env(record, FALSE)>>), EvalFrameStack)

(***************************************************************************)
(* State                                                                   *)
(***************************************************************************)
VARIABLES
    NEAR_AVAILABLE,   \* the flag the import block sets (lines 19..25)
    files,            \* model files on disk, by path
    pc,               \* "idle", or "evaluate" inside evaluate's episode loop
    call,             \* the current or last call: operation and arguments
    outcome,          \* how that call ended: returned value or raised error
    trace,            \* collaborators that call reached, in order
    log,              \* what that call logged
    env,              \* the environment that call constructed
    stake_calls,      \* requests that call delivered to stake_on_game
    trained,          \* arguments of the last train call that returned
    episode,          \* evaluate: episodes completed
    total_score,      \* evaluate: total_score
    episode_lengths,  \* evaluate: episode_lengths
    best_score,       \* evaluate: best_score
    successes,        \* evaluate: successes
    episode_scores    \* evaluate: the episode_score of each episode run

vars == <<NEAR_AVAILABLE, files, pc, call, outcome, trace, log, env,
          stake_calls, trained, episode, total_score, episode_lengths,
          best_score, successes, episode_scores>>

evalVars == <<episode, total_score, episode_lengths, best_score, successes,
              episode_scores>>

NoCall == [op |-> "none"]
NoTrain == [op |-> "none"]

Init ==
    /\ NEAR_AVAILABLE \in BOOLEAN
    /\ files \in [ModelPaths -> ExternalFiles]
    /\ pc = "idle"
    /\ call = NoCall
    /\ outcome = NoOutcome
    /\ trace = <<>>
    /\ log = <<>>
    /\ env = NoEnv
    /\ stake_calls = <<>>
    /\ trained = NoTrain
    /\ episode = 0
    /\ total_score = 0
    /\ episode_lengths = <<>>
    /\ best_score = NegInf
    /\ successes = 0
    /\ episode_scores = <<>>

(***************************************************************************)
(* Operations                                                              *)
(***************************************************************************)
\* evaluate's locals exist only during a call of evaluate.
NoEvalLocals ==
    /\ episode' = 0
    /\ total_score' = 0
    /\ episode_lengths' = <<>>
    /\ best_score' = NegInf
    /\ successes' = 0
    /\ episode_scores' = <<>>

\* A direct call of _make_env(render, record); gym.make may raise.
MakeEnvCall ==
    /\ pc = "idle"
    /\ \E render \in BOOLEAN, record \in BOOLEAN, env_ok \in BOOLEAN :
        /\ call' = [op |-> "_make_env", render |-> render, record |-> record,
                    env_ok |-> env_ok]
        /\ env' = IF env_ok THEN _make_env(render, record) ELSE NoEnv
        /\ outcome' = IF env_ok THEN Return("env") ELSE Raise(EnvError)
    /\ trace' = <<>>
    /\ log' = <<>>
    /\ stake_calls' = <<>>
    /\ NoEvalLocals
    /\ UNCHANGED <<NEAR_AVAILABLE, files, pc, trained>>

TrainCall ==
    /\ pc = "idle"
    /\ \E render \in BOOLEAN, config_path \in ConfigPaths,
          env_ok \in BOOLEAN, learn_ok \in BOOLEAN :
        \E config \in load_config(config_path) :
            LET r == train(render, config, env_ok, learn_ok, files)
            IN  /\ call' = [op |-> "train", render |-> render,
                            config_path |-> config_path, config |-> config,
                            env_ok |-> env_ok, learn_ok |-> learn_ok]
                /\ outcome' = r.outcome
                /\ files' = r.files
                /\ log' = r.log
                /\ trace' = r.trace
                /\ env' = r.env
                /\ trained' = IF r.outcome.kind = "return"
                              THEN [op |-> "train", render |-> render,
                                    config_path |-> config_path]
                              ELSE trained
    /\ stake_calls' = <<>>
    /\ NoEvalLocals
    /\ UNCHANGED <<NEAR_AVAILABLE, pc>>

ValidateCall ==
    /\ pc = "idle"
    /\ \E model_path \in ModelPaths, env_ok \in BOOLEAN :
        LET r == validate_model(files, model_path, env_ok)
        IN  /\ call' = [op |-> "validate_model", model_path |-> model_path,
                        env_ok |-> env_ok]
            /\ outcome' = r.outcome
            /\ log' = r.log
            /\ env' = r.env
    /\ trace' = <<>>
    /\ stake_calls' = <<>>
    /\ NoEvalLocals
    /\ UNCHANGED <<NEAR_AVAILABLE, files, pc, trained>>

StakeCall ==
    /\ pc = "idle"
    /\ \E wallet \in Wallets, model_path \in ModelPaths, amount \in Amounts,
          target_score \in TargetScores, env_ok \in BOOLEAN :
        LET r == stake(NEAR_AVAILABLE, wallet, model_path, amount,
                       target_score, files, env_ok)
        IN  /\ call' = [op |-> "stake", wallet |-> wallet,
                        model_path |-> model_path, amount |-> amount,
                        target_score |-> target_score, env_ok |-> env_ok]
            /\ outcome' = r.outcome
            /\ trace' = r.trace
            /\ log' = r.log
            /\ env' = r.env
            /\ stake_calls' = r.stake_calls
    /\ NoEvalLocals
    /\ UNCHANGED <<NEAR_AVAILABLE, files, pc, trained>>

\* evaluate, lines 172..182: build the environment, load the model, reset
\* the accumulators.
EvalStart ==
    /\ pc = "idle"
    /\ \E model_path \in ModelPaths, episodes \in 0..MaxEpisodes,
          record \in BOOLEAN, env_ok \in BOOLEAN :
        LET e == IF env_ok THEN evaluate_env(record) ELSE NoEnv
            m == IF env_ok THEN DQNLoad(files, model_path, e) ELSE Raise(EnvError)
        IN  /\ call' = [op |-> "evaluate", model_path |-> model_path,
                        episodes |-> episodes, record |-> record,
                        env_ok |-> env_ok]
            /\ env' = e
            /\ IF m.kind = "raise"
               THEN /\ outcome' = m
                    /\ pc' = "idle"
               ELSE /\ outcome' = NoOutcome
                    /\ pc' = "evaluate"
    /\ NoEvalLocals
    /\ trace' = <<>>
    /\ log' = <<>>
    /\ stake_calls' = <<>>
    /\ UNCHANGED <<NEAR_AVAILABLE, files, trained>>

\* evaluate, lines 184..201: one iteration of the episode loop.  The inner
\* while loop ends with some episode_score and episode_length; nothing is
\* caught, so an exception of reset, predict or step leaves evaluate.
EvalEpisode ==
    /\ pc = "evaluate"
    /\ episode < call.episodes
    /\ \/ /\ outcome' = Raise(StepError)
          /\ pc' = "idle"
          /\ UNCHANGED evalVars
       \/ \E o \in EpisodeOutcomes :
            LET episode_score == o[1]
                episode_length == o[2]
            IN  /\ total_score' = total_score + episode_score
                /\ episode_lengths' = Append(episode_lengths, episode_length)
                /\ best_score' = Max(best_score, episode_score)
                /\ successes' = IF IsSuccess(episode_score)
                                THEN successes + 1 ELSE successes
                /\ episode_scores' = Append(episode_scores, episode_score)
                /\ episode' = episode + 1
                /\ UNCHANGED <<outcome, pc>>
    /\ UNCHANGED <<NEAR_AVAILABLE, files, call, trace, log, env, stake_calls,
                   trained>>

\* evaluate, lines 203..209: build the result; the divisions raise when
\* episodes is 0.
EvalReturn ==
    /\ pc = "evaluate"
    /\ episode = call.episodes
    /\ outcome' = IF call.episodes = 0
                  THEN Raise(ZeroDivision)
                  ELSE Return(EvaluationResult(total_score, call.episodes,
                                  successes, best_score, episode_lengths))
    /\ pc' = "idle"
    /\ UNCHANGED <<NEAR_AVAILABLE, files, call, trace, log, env, stake_calls,
                   trained, evalVars>>

Next ==
    \/ MakeEnvCall
    \/ TrainCall
    \/ ValidateCall
    \/ StakeCall
    \/ EvalStart
    \/ EvalEpisode
    \/ EvalReturn

Spec == Init /\ [][Next]_vars

(***************************************************************************)
(* Properties                                                              *)
(***************************************************************************)
InTrace(x) == \E i \in 1..Len(trace) : trace[i] = x

\* The environment validate_model loads against.
ValidatorEnv == DummyVecEnv(<<_make_env(FALSE, FALSE)>>)

\* The model file of the current stake or validate_model call loads against
\* a freshly constructed validator environment.
ModelLoads ==
    /\ call.env_ok
    /\ DQNLoad(files, call.model_path, ValidatorEnv).kind = "return"

TargetInRange ==
    MinScore <= call.target_score /\ call.target_score <= MaxScore

\* The first stake precondition, in the documented order, that the current
\* stake call fails ("none" when all four hold).
FirstFailed ==
    IF ~NEAR_AVAILABLE THEN "feature"
    ELSE IF ~call.wallet.logged_in THEN "login"
    ELSE IF ~ModelLoads THEN "model"
    ELSE IF ~TargetInRange THEN "range"
    ELSE "none"

StakeErrorOf(k) ==
    CASE k = "feature" -> FeatureUnavailableError
      [] k = "login" -> NotLoggedInError
      [] k = "model" -> InvalidModelError
      [] k = "range" -> OutOfRangeError(MinScore, MaxScore)

Preconditions == {"feature", "login", "model", "range"}

\* C1: a stake call whose target_score is below 0 or above 1000 ends in one
\* of the four precondition errors, and stake_on_game was never reached.
C1_OutOfRangeRejected ==
    (call.op = "stake" /\ ~TargetInRange) =>
        /\ outcome.kind = "raise"
        /\ outcome.error \in {StakeErrorOf(k) : k \in Preconditions}
        /\ stake_calls = <<>>
        /\ ~InTrace("stake_on_game")

C1_Witness ==
    /\ call.op = "stake"
    /\ call.target_score = MaxScore + 1
    /\ FirstFailed = "range"
    /\ outcome = Raise(OutOfRangeError(MinScore, MaxScore))

\* C2: stake raises the error of the first failing precondition in the order
\* feature, login, model, range, and reaches no collaborator of a later
\* check; with a logged-out wallet validate_model is not called.
C2_CheckOrder ==
    (call.op = "stake" /\ FirstFailed # "none") =>
        /\ outcome = Raise(StakeErrorOf(FirstFailed))
        /\ FirstFailed = "feature" => trace = <<>>
        /\ FirstFailed = "login" =>
              /\ trace = <<"wallet.is_logged_in">>
              /\ ~InTrace("validate_model")
              /\ env = NoEnv
        /\ FirstFailed \in {"model", "range"} =>
              trace = <<"wallet.is_logged_in", "validate_model">>

C2_Witness ==
    /\ call.op = "stake"
    /\ NEAR_AVAILABLE
    /\ ~call.wallet.logged_in
    /\ ~ModelLoads
    /\ outcome = Raise(NotLoggedInError)

\* C3: validate_model always returns a boolean, never raises; it returns
\* True exactly when the environment was constructed and the model loaded.
C3_ValidateNeverRaises ==
    call.op = "validate_model" =>
        /\ outcome.kind = "return"
        /\ outcome.value \in BOOLEAN
        /\ outcome.value <=> ModelLoads

C3_Witness ==
    /\ call.op = "validate_model"
    /\ files[call.model_path].kind \in {"absent", "corrupt"}
    /\ outcome = Return(FALSE)

\* C4: after train(render=False, config_path=None) has returned, the file at
\* the fixed model path exists and validate_model on it returns True.
C4_TrainedModelValidates ==
    (/\ call.op = "validate_model"
     /\ call.model_path = FinalModelPath
     /\ call.env_ok
     /\ trained = [op |-> "train", render |-> FALSE, config_path |-> NoPath]) =>
        /\ files[FinalModelPath].kind = "model"
        /\ outcome = Return(TRUE)

\* C5: when all four preconditions hold, stake delivers exactly one request
\* to stake_on_game, with the wallet, "space_invaders", the model path, the
\* amount, the target score and (0, 1000), and completes.
C5_ForwardedOnce ==
    (call.op = "stake" /\ FirstFailed = "none") =>
        /\ outcome.kind = "return"
        /\ stake_calls = << [wallet |-> call.wallet, game_name |-> "space_invaders",
                             model_path |-> call.model_path,
                             amount |-> call.amount,
                             target_score |-> call.target_score,
                             score_range |-> <<0, 1000>>] >>

\* C6: an evaluate call that returns ran episodes >= 1 episodes, and its
\* success_rate is (number of episodes with score > 100) / episodes; it is
\* 0 when no episode exceeds 100.
C6_SuccessRate ==
    (call.op = "evaluate" /\ pc = "idle" /\ outcome.kind = "return") =>
        LET n == Cardinality({i \in 1..Len(episode_scores) : episode_scores[i] > 100})
        IN  /\ call.episodes >= 1
            /\ Len(episode_scores) = call.episodes
            /\ outcome.value.success_rate = <<n, call.episodes>>
            /\ (\A i \in 1..Len(episode_scores) : episode_scores[i] <= 100) =>
                   outcome.value.success_rate[1] = 0

C6_Witness ==
    /\ call.op = "evaluate"
    /\ pc = "idle"
    /\ outcome.kind = "return"
    /\ episode_scores = <<100, 101>>
    /\ outcome.value.success_rate = <<1, 2>>

\* C7: the one environment evaluate constructs never uses human rendering,
\* and has video recording attached exactly when record is True.
C7_EvalEnvNonRendering ==
    (call.op = "evaluate" /\ env.kind = "vec") =>
        /\ Len(env.envs) = 1
        /\ env.envs[1].render_mode # "human"
        /\ HasWrapper(env.envs[1], "RecordVideo") <=> call.record

\* C8: a train call whose training loop raises logs the error, re-raises
\* it, leaves the files untouched and returns nothing; one whose loop
\* completes creates the directory, saves the model at the fixed path and
\* returns that path.
C8_TrainOutcome ==
    [][(call'.op = "train" /\ call'.env_ok) =>
        IF ~call'.learn_ok
        THEN /\ outcome' = Raise(LearnError)
             /\ log'[Len(log')] = <<"error", "Training failed", LearnError>>
             /\ files' = files
             /\ trace' = <<"model.learn">>
        ELSE /\ outcome' = Return("models/space_invaders_final.zip")
             /\ files'["models/space_invaders_final.zip"].kind = "model"
             /\ files'["models/space_invaders_final.zip"].obs_shape = env'.obs_shape
             /\ trace' = <<"model.learn", "mkdir", "model.save">>]_vars

C8_Witness ==
    /\ call.op = "train"
    /\ call.env_ok
    /\ ~call.learn_ok
    /\ outcome = Raise(LearnError)
    /\ files[FinalModelPath].kind = "absent"

\* C9: the error of a rejected stake call identifies the precondition that
\* failed: it is the error of that precondition and of no other.
C9_DistinctErrors ==
    (call.op = "stake" /\ FirstFailed # "none") =>
        /\ outcome.kind = "raise"
        /\ \A k \in Preconditions :
              (outcome.error = StakeErrorOf(k)) <=> (k = FirstFailed)

C9_Witness ==
    /\ call.op = "stake"
    /\ FirstFailed = "model"
    /\ outcome = Raise(InvalidModelError)

\* C10: the environment _make_env returns has recording attached exactly
\* when record and not render, uses human rendering exactly when render,
\* and never has both.
C10_RecordingExclusive ==
    (call.op = "_make_env" /\ env.kind = "gym") =>
        /\ HasWrapper(env, "RecordVideo") <=> (call.record /\ ~call.render)
        /\ (env.render_mode = "human") <=> call.render
        /\ HasWrapper(env, "RecordVideo") => call.record
        /\ ~(env.render_mode = "human" /\ HasWrapper(env, "RecordVideo"))

C10_Witness ==
    /\ call.op = "_make_env"
    /\ call.render
    /\ call.record
    /\ env.kind = "gym"
    /\ env.render_mode = "human"
    /\ ~HasWrapper(env, "RecordVideo")

====
